---- MODULE Spec2Model ----
(***************************************************************************)
(* mss_transmeta: the remapping receiver (TransMetaClient.on_data), the    *)
(* lock-protected ingest buffer (TransMetaClient.stream / stream_lock),    *)
(* the write cycle (TransMetaClient.save_data) and the wall-clock aligned  *)
(* timer that drives it (util.task_timer).                                 *)
(*                                                                         *)
(* Two threads: the receive path "rx" (the transport calls on_data once    *)
(* per trace) and the flush scheduler "sched" (task_timer calling          *)
(* save_data).  Every statement that touches shared state is one step.     *)
(*                                                                         *)
(* Time is counted in whole clock units.  task_timer only uses the clock   *)
(* through  now.timestamp % interval,  so the wall clock is kept modulo    *)
(* interval once it ticks (this keeps  clock % interval  exact); the start *)
(* time is drawn from StartTimes, which spans two intervals.  The          *)
(* statements of task_timer itself take no clock unit; a sleep takes       *)
(* exactly the requested units; a codec write takes any number.            *)
(***************************************************************************)
EXTENDS Integers, Sequences, FiniteSets, TLC

\* Number of traces the transport delivers in one behaviour.
MaxBatches == 2
\* Largest configured save_interval; the intervals tried are 2..MaxInterval.
MaxInterval == 3

Intervals == 2..MaxInterval
\* The times task_timer may be started at, for interval i.
StartTimes(i) == 0..(2 * i - 1)

\* The identities on the wire (SourceId) and after relay (DestinationId).
SN001 == <<"XX", "SN001", "00", "HHZ">>
SN002 == <<"XX", "SN002", "01", "HHE">>
SN999 == <<"XX", "SN999", "00", "HHZ">>
STA1  == <<"NL", "STA1", "00", "HHZ">>
STA2  == <<"AT", "STA2", "", "HHN">>

\* The ids the transport may deliver: two mapped ones and a stray one.
WireIds == {SN001, SN002, SN999}

\* The table get_recorder_mappings returned at construction.
InitialRecorderMap == (SN001 :> STA1) @@ (SN002 :> STA2)

\* The exceptions the codec interface (Stream.write) may raise.
CodecErrors == {"NotImplementedError", "ValueError", "OtherError"}

VARIABLES
    recorder_map,     \* self.recorder_map: SourceId -> DestinationId
    stream,           \* self.stream: the live buffer, a sequence of traces
    stream_lock,      \* self.stream_lock: "free" or the thread holding it
    rx_pc,            \* position of the receive path
    trace,            \* the trace on_data is working on (mutated in place)
    cur_nslc,         \* on_data's local cur_nslc
    delivered,        \* number of traces the transport has delivered
    rx_result,        \* per trace: "none", "appended" or "KeyError"
    sched_pc,         \* position of task_timer / save_data
    stop_event,       \* the shared threading.Event
    interval,         \* task_timer's interval
    clock,            \* the wall clock (modulo interval once it has ticked)
    now,              \* task_timer's local now (timestamp read)
    delay_to_next_interval, \* task_timer's local
    sleep_left,       \* clock units the running time.sleep still takes
    export_stream,    \* save_data's local export_stream
    cur_filepath,     \* save_data's local cur_filepath
    files,            \* the files in data_dir
    exc,              \* the exception propagating out of callback(), or "none"
    log,              \* what the loggers have recorded about failures
    hist,             \* history of the run (observations only, never read by the program)
    inventory,        \* project.inventory: the stations of the geometry snapshot
    stations,         \* process_config['stations']: the requested station codes
    query_clock,      \* the wall clock get_stream is asked about
    build_pc,         \* position in __init__ / get_recorder_mappings
    build_no,         \* which construction is running (a client is built per connection)
    station_nsl,      \* get_recorder_mappings' argument (self.stations)
    station_list,     \* get_recorder_mappings' local station_list
    loop_at,          \* the position of the for loop that is running
    new_map,          \* get_recorder_mappings' local recorder_map
    built,            \* per construction: how it ended and the table it installed
    self_version,     \* Version comparison: self.version
    c_version,        \* Version comparison: c.version
    cmp_result        \* Version comparison: what each operator gave for the pair

\* The state of a construction (TransMetaClient.__init__).
build_vars == <<inventory, stations, query_clock, build_pc, build_no,
                station_nsl, station_list, loop_at, new_map, built>>
\* The state of a Version comparison.
cmp_vars == <<self_version, c_version, cmp_result>>
\* The state of the running client, its scheduler and their environment.
client_vars == <<recorder_map, stream, stream_lock, rx_pc, trace, cur_nslc,
                 delivered, rx_result, sched_pc, stop_event, interval, clock,
                 now, delay_to_next_interval, sleep_left, export_stream,
                 cur_filepath, files, exc, log, hist>>

vars == <<recorder_map, stream, stream_lock, rx_pc, trace, cur_nslc, delivered,
          rx_result, sched_pc, stop_event, interval, clock, now,
          delay_to_next_interval, sleep_left, export_stream, cur_filepath,
          files, exc, log, hist, build_vars, cmp_vars>>

rx_vars == <<rx_pc, trace, cur_nslc, delivered, rx_result>>
timer_vars == <<interval, now, delay_to_next_interval, sleep_left>>
save_vars == <<export_stream, cur_filepath, files>>

\* The value an array slot holds when it is masked (no sample).
Masked == 0

NoTrace == [network |-> "", station |-> "", location |-> "", channel |-> "",
            starttime |-> 0, data |-> <<>>]

\* A trace as the transport hands it to on_data: it carries the wire id.
\* The k-th trace starts at sample slot k and holds one sample, whose value
\* is k; so the value of a sample tells which batch it came with.
NewTrace(k, id) ==
    [network |-> id[1], station |-> id[2], location |-> id[3], channel |-> id[4],
     starttime |-> k, data |-> <<k>>]

\* trace.stats.endtime: the slot of the last sample.
EndTime(tr) == tr.starttime + Len(tr.data) - 1

\* tuple(trace.id.split('.')): trace.id joins the four codes with dots.
\* SEED codes hold no dot, so the split gives the four codes back.
TraceIdTuple(tr) == <<tr.network, tr.station, tr.location, tr.channel>>

\* The batches whose samples a trace / a sequence of traces holds.
TraceBatches(tr) == {tr.data[i] : i \in DOMAIN tr.data} \ {Masked}
BatchesOf(st) == UNION {TraceBatches(st[i]) : i \in DOMAIN st}

\* How often batch b occurs in a sequence of traces.
Occurrences(st, b) == Cardinality({i \in DOMAIN st : b \in TraceBatches(st[i])})

\* In the running client the construction is over and no Version is being
\* compared: these variables rest.
BuildRests ==
    /\ inventory = <<>>
    /\ stations = <<>>
    /\ query_clock = 1
    /\ build_pc = "constructed"
    /\ build_no = 1
    /\ station_nsl = [none |-> TRUE, list |-> <<>>]
    /\ station_list = <<>>
    /\ loop_at = 1
    /\ new_map = <<>>
    /\ built = <<>>

CmpRests ==
    /\ self_version = <<0>>
    /\ c_version = <<0>>
    /\ cmp_result = <<>>

\* The running client, after construction; pc and drained say where the
\* scheduler thread is and what save_data holds in export_stream.
ClientInitAt(pc, drained) ==
    /\ recorder_map = InitialRecorderMap
    /\ stream = <<>>
    /\ stream_lock = "free"
    /\ rx_pc = "created"
    /\ trace = NoTrace
    /\ cur_nslc = <<>>
    /\ delivered = 0
    /\ rx_result = [k \in 1..MaxBatches |-> "none"]
    /\ sched_pc = pc
    /\ stop_event = FALSE
    /\ interval \in Intervals
    /\ clock \in StartTimes(interval)
    /\ now = 0
    /\ delay_to_next_interval = 0
    /\ sleep_left = 0
    /\ export_stream = drained
    /\ cur_filepath = <<>>
    /\ files = {}
    /\ exc = "none"
    /\ log = {}
    /\ hist = [callbacks |-> 0,       \* invocations of callback()
               drains |-> <<>>,       \* the batches each drain took, in order
               wire |-> [k \in 1..MaxBatches |-> <<>>], \* the id batch k arrived with
               held |-> 0,            \* the undrained batch whose append began under a drain
               appended |-> {},       \* batches on_data has appended
               outcome |-> [how |-> "none", codec |-> "none"], \* how the last callback() went
               masked |-> {},         \* batches of cycles the codec refused as masked
               failed_at |-> 0,       \* callbacks at the first raising callback
               finish_clock |-> 0,    \* the clock when the last callback ended
               overran |-> FALSE,     \* the last codec write ran past a boundary
               stopped_with |-> 0,    \* batches appended when task_timer returned
               selected |-> {}]       \* the streams selected at the server

\* The client as __init__ leaves it, before task_timer has run.
ClientInit == ClientInitAt("start", <<>>)

Init == ClientInit /\ BuildRests /\ CmpRests

(***************************************************************************)
(* The receive path: the transport and TransMetaClient.on_data.            *)
(***************************************************************************)

\* seedlink_connect: self.connect(), then for every key of self.recorder_map
\*   self.select_stream(cur_mss[0], cur_mss[1], cur_mss[2] + cur_mss[3])
\* The loop only reads the table; no other statement of the program writes
\* what it reads, so the loop is one step.  The transport delivers after it.
SeedlinkConnect ==
    /\ rx_pc = "created"
    /\ rx_pc' = "idle"
    /\ hist' = [hist EXCEPT !.selected =
            {<<cur_mss[1], cur_mss[2], cur_mss[3] \o cur_mss[4]>> :
                cur_mss \in DOMAIN recorder_map}]
    /\ UNCHANGED <<build_vars, cmp_vars, recorder_map, stream, stream_lock, trace,
                   cur_nslc, delivered, rx_result, sched_pc, stop_event,
                   timer_vars, clock, save_vars, exc, log>>

\* The transport decodes the next trace and calls on_data(trace).
TransportDeliver(id) ==
    /\ rx_pc = "idle"
    /\ delivered < MaxBatches
    /\ delivered' = delivered + 1
    /\ trace' = NewTrace(delivered + 1, id)
    /\ rx_pc' = "on_data"
    /\ hist' = [hist EXCEPT !.wire[delivered + 1] = id]
    /\ UNCHANGED <<build_vars, cmp_vars, recorder_map, stream, stream_lock, cur_nslc, rx_result,
                   sched_pc, stop_event, timer_vars, clock, save_vars, exc,
                   log>>

\* Faulty variant: a batch whose id is not in the table goes on to the append
\* as it arrived.
OnDataLookupPassesUnmapped ==
    /\ rx_pc = "on_data"
    /\ IF TraceIdTuple(trace) \in DOMAIN recorder_map
         THEN /\ cur_nslc' = recorder_map[TraceIdTuple(trace)]
              /\ rx_pc' = "rewrite"
         ELSE /\ rx_pc' = "with_lock"
              /\ UNCHANGED cur_nslc
    /\ UNCHANGED <<build_vars, cmp_vars, recorder_map, stream, stream_lock, trace,
                   delivered, rx_result, sched_pc, stop_event, timer_vars,
                   clock, save_vars, exc, log, hist>>

\* Faulty variant: an id that is not in the table is entered, mapped to itself.
OnDataLookupAddsMissingId ==
    /\ rx_pc = "on_data"
    /\ recorder_map' = IF TraceIdTuple(trace) \in DOMAIN recorder_map
                         THEN recorder_map
                         ELSE recorder_map @@ (TraceIdTuple(trace) :> TraceIdTuple(trace))
    /\ cur_nslc' = recorder_map'[TraceIdTuple(trace)]
    /\ rx_pc' = "rewrite"
    /\ UNCHANGED <<build_vars, cmp_vars, stream, stream_lock, trace, delivered,
                   rx_result, sched_pc, stop_event, timer_vars, clock,
                   save_vars, exc, log, hist>>

\* cur_nslc = self.recorder_map[tuple(trace.id.split('.'))]
\* A dict lookup of a missing key raises KeyError; on_data has no handler,
\* so the KeyError leaves on_data.  Nothing is logged about it.
OnDataLookup ==
    /\ rx_pc = "on_data"
    /\ IF TraceIdTuple(trace) \in DOMAIN recorder_map
         THEN /\ cur_nslc' = recorder_map[TraceIdTuple(trace)]
              /\ rx_pc' = "rewrite"
              /\ UNCHANGED rx_result
              /\ UNCHANGED trace
         ELSE /\ rx_pc' = "raised"
              /\ rx_result' = [rx_result EXCEPT ![delivered] = "KeyError"]
              /\ UNCHANGED <<trace, cur_nslc>>
    /\ UNCHANGED <<build_vars, cmp_vars, recorder_map, stream, stream_lock, delivered,
                   sched_pc, stop_event, timer_vars, clock, save_vars, exc,
                   log, hist>>

\* Faulty variant: the station is assigned from the wrong element.
RewrittenStationWrongIndex(tr, nslc) ==
    [tr EXCEPT !.network = nslc[1], !.station = nslc[1],
               !.location = nslc[3], !.channel = nslc[4]]

\* The trace after the four assignments
\*   trace.stats.network = cur_nslc[0]; trace.stats.station = cur_nslc[1]
\*   trace.stats.location = cur_nslc[2]; trace.stats.channel = cur_nslc[3]
Rewritten(tr, nslc) ==
    [tr EXCEPT !.network = nslc[1], !.station = nslc[2],
               !.location = nslc[3], !.channel = nslc[4]]

\* The four assignments; they change the trace in place, which only on_data
\* holds at this point, so they are one step.  Then on_data reaches the with
\* statement.
OnDataRewrite ==
    /\ rx_pc = "rewrite"
    /\ trace' = Rewritten(trace, cur_nslc)
    /\ rx_pc' = "with_lock"
    /\ hist' = [hist EXCEPT
            !.held = IF stream_lock = "sched" THEN delivered ELSE @]
    /\ UNCHANGED <<build_vars, cmp_vars, recorder_map, stream, stream_lock, cur_nslc, delivered,
                   rx_result, sched_pc, stop_event, timer_vars, clock,
                   save_vars, exc, log>>

\* Faulty variant: on_data appends without taking the lock.
OnDataNoLock ==
    /\ rx_pc = "with_lock"
    /\ rx_pc' = "append"
    /\ UNCHANGED <<build_vars, cmp_vars, recorder_map, stream, stream_lock, trace, cur_nslc, delivered,
                   rx_result, sched_pc, stop_event, timer_vars, clock, save_vars,
                   exc, log, hist>>

\* with self.stream_lock: entering the block waits for the lock.
OnDataAcquire ==
    /\ rx_pc = "with_lock"
    /\ stream_lock = "free"
    /\ stream_lock' = "rx"
    /\ rx_pc' = "append"
    /\ UNCHANGED <<build_vars, cmp_vars, recorder_map, stream, trace, cur_nslc, delivered, rx_result,
                   sched_pc, stop_event, timer_vars, clock, save_vars, exc,
                   log, hist>>

\* Faulty variant: with the stop flag set the batch is dropped, not appended.
OnDataAppendDropsAfterStop ==
    /\ rx_pc = "append"
    /\ stream' = IF stop_event THEN stream ELSE Append(stream, trace)
    /\ stream_lock' = IF stream_lock = "rx" THEN "free" ELSE stream_lock
    /\ rx_pc' = "idle"
    /\ rx_result' = [rx_result EXCEPT ![delivered] = "appended"]
    /\ trace' = NoTrace
    /\ cur_nslc' = <<>>
    /\ hist' = [hist EXCEPT !.appended = @ \cup {delivered}]
    /\ UNCHANGED <<build_vars, cmp_vars, recorder_map, delivered, sched_pc,
                   stop_event, timer_vars, clock, save_vars, exc, log>>

\* Faulty variant: the append returns without releasing the lock.
OnDataAppendKeepsLock ==
    /\ rx_pc = "append"
    /\ stream' = Append(stream, trace)
    /\ rx_pc' = "idle"
    /\ rx_result' = [rx_result EXCEPT ![delivered] = "appended"]
    /\ trace' = NoTrace
    /\ cur_nslc' = <<>>
    /\ hist' = [hist EXCEPT !.appended = @ \cup {delivered}]
    /\ UNCHANGED <<build_vars, cmp_vars, recorder_map, stream_lock, delivered,
                   sched_pc, stop_event, timer_vars, clock, save_vars, exc,
                   log>>

\* self.stream.append(trace), the with block releases the lock and on_data
\* returns (its locals end with it).
OnDataAppend ==
    /\ rx_pc = "append"
    /\ stream' = Append(stream, trace)
    /\ stream_lock' = IF stream_lock = "rx" THEN "free" ELSE stream_lock
    /\ rx_pc' = "idle"
    /\ rx_result' = [rx_result EXCEPT ![delivered] = "appended"]
    /\ trace' = NoTrace
    /\ cur_nslc' = <<>>
    /\ hist' = [hist EXCEPT !.appended = @ \cup {delivered}]
    /\ UNCHANGED <<build_vars, cmp_vars, recorder_map, delivered, sched_pc,
                   stop_event, timer_vars, clock, save_vars, exc, log>>

\* The KeyError reaches the transport's receive loop, which is not part of
\* this repository: it may go on with the next trace or end the loop.
TransportAfterError(goes_on) ==
    /\ rx_pc = "raised"
    /\ rx_pc' = IF goes_on THEN "idle" ELSE "aborted"
    /\ trace' = NoTrace
    /\ UNCHANGED <<build_vars, cmp_vars, recorder_map, stream, stream_lock, cur_nslc,
                   delivered, rx_result, sched_pc, stop_event, timer_vars,
                   clock, save_vars, exc, log, hist>>

\* The steps of on_data itself (the receive thread inside the callback).
OnDataNext ==
    \/ OnDataLookup
    \/ OnDataRewrite
    \/ OnDataAcquire
    \/ OnDataAppend

RxNext ==
    \/ SeedlinkConnect
    \/ \E id \in WireIds : TransportDeliver(id)
    \/ OnDataLookup
    \/ OnDataRewrite
    \/ OnDataAcquire
    \/ OnDataAppend
    \/ \E goes_on \in BOOLEAN : TransportAfterError(goes_on)

(***************************************************************************)
(* Stream.merge() and Stream.split() of the traces drained by save_data.   *)
(***************************************************************************)

MinOf(S) == CHOOSE x \in S : \A y \in S : x <= y
MaxOf(S) == CHOOSE x \in S : \A y \in S : x >= y

\* A set of traces as a sequence, earliest start first.
RECURSIVE SeqOfTraces(_)
SeqOfTraces(S) ==
    IF S = {} THEN <<>>
    ELSE LET first == CHOOSE x \in S : \A y \in S : x.starttime <= y.starttime
         IN  <<first>> \o SeqOfTraces(S \ {first})

\* The one trace merge() makes of the traces of st that carry this id: it
\* spans from the earliest start to the latest end; a slot that no trace
\* covers (a gap), or that several cover, is masked.
MergedTrace(st, id) ==
    LET idx == {i \in DOMAIN st : TraceIdTuple(st[i]) = id}
        lo == MinOf({st[i].starttime : i \in idx})
        hi == MaxOf({EndTime(st[i]) : i \in idx})
        Cover(slot) == {i \in idx : /\ st[i].starttime <= slot
                                    /\ slot <= EndTime(st[i])
                                    /\ st[i].data[slot - st[i].starttime + 1] # Masked}
        Value(slot) == IF Cardinality(Cover(slot)) = 1
                         THEN LET i == CHOOSE j \in Cover(slot) : TRUE
                              IN  st[i].data[slot - st[i].starttime + 1]
                         ELSE Masked
    IN  [network |-> id[1], station |-> id[2], location |-> id[3],
         channel |-> id[4], starttime |-> lo,
         data |-> [t \in 1..(hi - lo + 1) |-> Value(lo + t - 1)]]

\* export_stream.merge(): one trace per id.
Merge(st) ==
    SeqOfTraces({MergedTrace(st, id) : id \in {TraceIdTuple(st[i]) : i \in DOMAIN st}})

\* The traces split() makes of one trace: its maximal unmasked runs.
SplitTrace(tr) ==
    LET n == Len(tr.data)
        Unmasked(a, b) == \A t \in a..b : tr.data[t] # Masked
        runs == {ab \in (1..n) \X (1..n) :
                    /\ ab[1] <= ab[2]
                    /\ Unmasked(ab[1], ab[2])
                    /\ (ab[1] = 1 \/ tr.data[ab[1] - 1] = Masked)
                    /\ (ab[2] = n \/ tr.data[ab[2] + 1] = Masked)}
    IN  {[tr EXCEPT !.starttime = tr.starttime + ab[1] - 1,
                    !.data = SubSeq(tr.data, ab[1], ab[2])] : ab \in runs}

\* export_stream.split(): the runs of every trace.
Split(st) ==
    SeqOfTraces(UNION {SplitTrace(tr) : tr \in {st[i] : i \in DOMAIN st}})

(***************************************************************************)
(* The write cycle: TransMetaClient.save_data, run by the scheduler.       *)
(***************************************************************************)

SavePcs == {"sd_with_lock", "sd_copy", "sd_swap", "sd_merge", "sd_write",
            "sd_except_ni", "sd_except_value"}

\* callback() has ended: by returning, or by an exception that leaves it
\* (save_data's locals end with it).
Ended(how, codec) ==
    [hist EXCEPT !.outcome = [how |-> how, codec |-> codec],
                 !.finish_clock = clock]

\* with self.stream_lock: entering the block waits for the lock.
SaveDataAcquire ==
    /\ sched_pc = "sd_with_lock"
    /\ stream_lock = "free"
    /\ stream_lock' = "sched"
    /\ sched_pc' = "sd_copy"
    /\ UNCHANGED <<build_vars, cmp_vars, recorder_map, stream, rx_vars, stop_event, timer_vars,
                   clock, save_vars, exc, log, hist>>

\* Faulty variant: the lock covers the copy only: it is released before the swap.
SaveDataCopyReleases ==
    /\ sched_pc = "sd_copy"
    /\ export_stream' = stream
    /\ stream_lock' = "free"
    /\ sched_pc' = "sd_swap"
    /\ UNCHANGED <<build_vars, cmp_vars, recorder_map, stream, rx_vars, stop_event,
                   timer_vars, clock, cur_filepath, files, exc, log, hist>>

\* export_stream = self.stream.copy()
SaveDataCopy ==
    /\ sched_pc = "sd_copy"
    /\ export_stream' = stream
    /\ sched_pc' = "sd_swap"
    /\ UNCHANGED <<build_vars, cmp_vars, recorder_map, stream, stream_lock, rx_vars, stop_event,
                   timer_vars, clock, cur_filepath, files, exc, log, hist>>

\* Faulty variant: the live buffer is not replaced: the drained traces stay in
\* it for the next cycle.
SaveDataSwapKeepsBuffer ==
    /\ sched_pc = "sd_swap"
    /\ stream_lock' = IF stream_lock = "sched" THEN "free" ELSE stream_lock
    /\ sched_pc' = "sd_merge"
    /\ hist' = [hist EXCEPT !.drains = Append(@, BatchesOf(export_stream))]
    /\ UNCHANGED <<build_vars, cmp_vars, recorder_map, stream, rx_vars, stop_event, timer_vars,
                   clock, save_vars, exc, log>>

\* self.stream = obspy.Stream(), and the with block releases the lock.
SaveDataSwap ==
    /\ sched_pc = "sd_swap"
    /\ stream' = <<>>
    /\ stream_lock' = IF stream_lock = "sched" THEN "free" ELSE stream_lock
    /\ sched_pc' = "sd_merge"
    /\ hist' = [hist EXCEPT !.drains = Append(@, BatchesOf(export_stream))]
    /\ UNCHANGED <<build_vars, cmp_vars, recorder_map, rx_vars, stop_event, timer_vars, clock,
                   save_vars, exc, log>>

\* Faulty variant: split() is left out, so a merged trace keeps its masked gaps.
SaveDataMergeWithoutSplit ==
    /\ sched_pc = "sd_merge"
    /\ \E merged \in {Merge(export_stream)} :
           IF merged = <<>>
             THEN /\ exc' = "ValueError"
                  /\ sched_pc' = "except"
                  /\ hist' = [Ended("raised", "none") EXCEPT
                                !.held = IF @ \in BatchesOf(export_stream) THEN 0 ELSE @,
                                !.overran = FALSE]
                  /\ export_stream' = <<>>
                  /\ UNCHANGED cur_filepath
             ELSE /\ export_stream' = merged
                  /\ cur_filepath' =
                        <<MinOf({merged[i].starttime : i \in DOMAIN merged}),
                          MaxOf({EndTime(merged[i]) : i \in DOMAIN merged})>>
                  /\ sched_pc' = "sd_write"
                  /\ hist' = [hist EXCEPT
                                !.held = IF @ \in BatchesOf(export_stream) THEN 0 ELSE @,
                                !.overran = FALSE]
                  /\ UNCHANGED exc
    /\ UNCHANGED <<build_vars, cmp_vars, recorder_map, stream, stream_lock, rx_vars, stop_event,
                   timer_vars, clock, files, log>>

\* export_stream.merge(); export_stream.split();
\* cur_start = min([...]); cur_end = max([...]); cur_filepath = ...
\* min() of an empty list raises ValueError; these lines are outside the try
\* block, so the ValueError leaves save_data.  The file name is made of the
\* two times, so the pair stands for it.
SaveDataMergeAndName ==
    /\ sched_pc = "sd_merge"
    /\ \E merged \in {Split(Merge(export_stream))} :
           IF merged = <<>>
             THEN /\ exc' = "ValueError"
                  /\ sched_pc' = "except"
                  /\ hist' = [Ended("raised", "none") EXCEPT
                                !.held = IF @ \in BatchesOf(export_stream) THEN 0 ELSE @,
                                !.overran = FALSE]
                  /\ export_stream' = <<>>
                  /\ UNCHANGED cur_filepath
             ELSE /\ export_stream' = merged
                  /\ cur_filepath' =
                        <<MinOf({merged[i].starttime : i \in DOMAIN merged}),
                          MaxOf({EndTime(merged[i]) : i \in DOMAIN merged})>>
                  /\ sched_pc' = "sd_write"
                  /\ hist' = [hist EXCEPT
                                !.held = IF @ \in BatchesOf(export_stream) THEN 0 ELSE @,
                                !.overran = FALSE]
                  /\ UNCHANGED exc
    /\ UNCHANGED <<build_vars, cmp_vars, recorder_map, stream, stream_lock, rx_vars, stop_event,
                   timer_vars, clock, files, log>>

\* The files of data_dir after a file of this path is written.
WithFile(path, traces) ==
    {f \in files : f.path # path} \cup {[path |-> path, traces |-> traces]}

\* export_stream.write(...) succeeds: the file holds the runs; save_data
\* returns.
SaveDataWriteOk ==
    /\ sched_pc = "sd_write"
    /\ files' = WithFile(cur_filepath, export_stream)
    /\ sched_pc' = "timer_now"
    /\ hist' = Ended("returned", "ok")
    /\ export_stream' = <<>>
    /\ cur_filepath' = <<>>
    /\ UNCHANGED <<build_vars, cmp_vars, recorder_map, stream, stream_lock, rx_vars, stop_event,
                   timer_vars, clock, exc, log>>

\* export_stream.write(...) raises e.  The codec is not part of this
\* repository: it may or may not have created the (empty) file before it
\* raises.  Only the ValueError handler looks for that file, so files keeps
\* the artifact of a ValueError and not what the other errors leave.
\* NotImplementedError and ValueError have handlers; anything else leaves
\* save_data.
SaveDataWriteRaises(e, partial) ==
    /\ sched_pc = "sd_write"
    /\ files' = IF partial /\ e = "ValueError"
                 THEN WithFile(cur_filepath, <<>>) ELSE files
    /\ IF e = "NotImplementedError"
         THEN /\ sched_pc' = "sd_except_ni"
              /\ UNCHANGED <<exc, hist, export_stream, cur_filepath>>
         ELSE IF e = "ValueError"
         THEN /\ sched_pc' = "sd_except_value"
              /\ UNCHANGED <<exc, hist, export_stream, cur_filepath>>
         ELSE /\ sched_pc' = "except"
              /\ exc' = e
              /\ hist' = Ended("raised", e)
              /\ export_stream' = <<>>
              /\ cur_filepath' = <<>>
    /\ UNCHANGED <<build_vars, cmp_vars, recorder_map, stream, stream_lock, rx_vars, stop_event,
                   timer_vars, clock, log>>

\* Faulty variant: the handler puts the drained traces back for the next cycle.
SaveDataExceptNotImplementedRequeues ==
    /\ sched_pc = "sd_except_ni"
    /\ log' = log \cup {<<"save_data", "NotImplementedError">>}
    /\ stream' = export_stream \o stream
    /\ sched_pc' = "timer_now"
    /\ hist' = [Ended("returned", "NotImplementedError") EXCEPT
                    !.masked = @ \cup BatchesOf(export_stream)]
    /\ export_stream' = <<>>
    /\ cur_filepath' = <<>>
    /\ UNCHANGED <<build_vars, cmp_vars, recorder_map, stream_lock, rx_vars, stop_event,
                   timer_vars, clock, files, exc>>

\* except NotImplementedError: self.logger.exception(...); save_data returns.
SaveDataExceptNotImplemented ==
    /\ sched_pc = "sd_except_ni"
    /\ log' = log \cup {<<"save_data", "NotImplementedError">>}
    /\ sched_pc' = "timer_now"
    /\ hist' = [Ended("returned", "NotImplementedError") EXCEPT
                    !.masked = @ \cup BatchesOf(export_stream)]
    /\ export_stream' = <<>>
    /\ cur_filepath' = <<>>
    /\ UNCHANGED <<build_vars, cmp_vars, recorder_map, stream, stream_lock, rx_vars, stop_event,
                   timer_vars, clock, files, exc>>

\* except ValueError: self.logger.info(...); os.remove(cur_filepath).
\* os.remove of a path that does not exist raises FileNotFoundError, which
\* leaves save_data.
SaveDataExceptValueError ==
    /\ sched_pc = "sd_except_value"
    /\ log' = log \cup {<<"save_data", "ValueError">>}
    /\ IF \E f \in files : f.path = cur_filepath
         THEN /\ files' = {f \in files : f.path # cur_filepath}
              /\ sched_pc' = "timer_now"
              /\ hist' = Ended("returned", "ValueError")
              /\ UNCHANGED exc
         ELSE /\ exc' = "FileNotFoundError"
              /\ sched_pc' = "except"
              /\ hist' = Ended("raised", "ValueError")
              /\ UNCHANGED files
    /\ export_stream' = <<>>
    /\ cur_filepath' = <<>>
    /\ UNCHANGED <<build_vars, cmp_vars, recorder_map, stream, stream_lock, rx_vars, stop_event,
                   timer_vars, clock>>

SaveDataNext ==
    \/ SaveDataAcquire
    \/ SaveDataCopy
    \/ SaveDataSwap
    \/ SaveDataMergeAndName
    \/ SaveDataWriteOk
    \/ \E e \in CodecErrors :
          \E partial \in (IF e = "ValueError" THEN BOOLEAN ELSE {FALSE}) :
             SaveDataWriteRaises(e, partial)
    \/ SaveDataExceptNotImplemented
    \/ SaveDataExceptValueError

(***************************************************************************)
(* The flush scheduler: util.task_timer.                                   *)
(***************************************************************************)

\* delay_to_next_interval = interval - (now.timestamp % interval)
DelayToNextInterval(t, i) == i - (t % i)

\* Faulty variant: the first sleep is one whole interval, whatever the clock.
TimerStartFixedDelay ==
    /\ sched_pc = "start"
    /\ now' = clock
    /\ delay_to_next_interval' = interval
    /\ sleep_left' = interval
    /\ sched_pc' = "sleep"
    /\ UNCHANGED <<build_vars, cmp_vars, recorder_map, stream, stream_lock, rx_vars, stop_event,
                   interval, clock, save_vars, exc, log, hist>>

\* now = obspy.UTCDateTime(); the delay; time.sleep(delay) begins.
TimerStart ==
    /\ sched_pc = "start"
    /\ now' = clock
    /\ delay_to_next_interval' = DelayToNextInterval(clock, interval)
    /\ sleep_left' = DelayToNextInterval(clock, interval)
    /\ sched_pc' = "sleep"
    /\ UNCHANGED <<build_vars, cmp_vars, recorder_map, stream, stream_lock, rx_vars, stop_event,
                   interval, clock, save_vars, exc, log, hist>>

\* Faulty variant: the loop condition is not looked at: the callback is invoked
\* at every boundary.
TimerWhileIgnoresStop ==
    /\ sched_pc = "sleep"
    /\ sleep_left = 0
    /\ sched_pc' = "sd_with_lock"
    /\ hist' = [hist EXCEPT
            !.callbacks = @ + 1,
            !.outcome = [how |-> "running", codec |-> "none"]]
    /\ UNCHANGED <<build_vars, cmp_vars, recorder_map, stream, stream_lock, rx_vars, stop_event,
                   timer_vars, clock, save_vars, exc, log>>

\* time.sleep returns once the requested time has passed; then
\* while not stop_event.is_set(): ... callback()   (callback is save_data)
\* With the flag set the loop is left and task_timer returns.
TimerWhile ==
    /\ sched_pc = "sleep"
    /\ sleep_left = 0
    /\ IF stop_event
         THEN /\ sched_pc' = "done"
              /\ hist' = [hist EXCEPT !.stopped_with = Cardinality(hist.appended)]
         ELSE /\ sched_pc' = "sd_with_lock"
              /\ hist' = [hist EXCEPT
                      !.callbacks = @ + 1,
                      !.outcome = [how |-> "running", codec |-> "none"]]
    /\ UNCHANGED <<build_vars, cmp_vars, recorder_map, stream, stream_lock, rx_vars, stop_event,
                   timer_vars, clock, save_vars, exc, log>>

\* Faulty variant: after setting the flag task_timer returns at once, without
\* the sleep to the next boundary.
TimerExceptReturnsAtOnce ==
    /\ sched_pc = "except"
    /\ log' = log \cup {<<"task_timer", exc>>}
    /\ stop_event' = TRUE
    /\ exc' = "none"
    /\ sched_pc' = "done"
    /\ hist' = [hist EXCEPT !.failed_at = IF @ = 0 THEN hist.callbacks ELSE @,
                            !.stopped_with = Cardinality(hist.appended)]
    /\ UNCHANGED <<build_vars, cmp_vars, recorder_map, stream, stream_lock, rx_vars, timer_vars,
                   clock, save_vars>>

\* Faulty variant: the exception is logged and the flag is left alone.
TimerExceptLogsOnly ==
    /\ sched_pc = "except"
    /\ log' = log \cup {<<"task_timer", exc>>}
    /\ exc' = "none"
    /\ sched_pc' = "timer_now"
    /\ hist' = [hist EXCEPT !.failed_at = IF @ = 0 THEN hist.callbacks ELSE @]
    /\ UNCHANGED <<build_vars, cmp_vars, recorder_map, stream, stream_lock, rx_vars, stop_event,
                   timer_vars, clock, save_vars>>

\* except Exception as e: logger.exception(e); stop_event.set()
TimerExcept ==
    /\ sched_pc = "except"
    /\ log' = log \cup {<<"task_timer", exc>>}
    /\ stop_event' = TRUE
    /\ exc' = "none"
    /\ sched_pc' = "timer_now"
    /\ hist' = [hist EXCEPT !.failed_at = IF @ = 0 THEN hist.callbacks ELSE @]
    /\ UNCHANGED <<build_vars, cmp_vars, recorder_map, stream, stream_lock, rx_vars, timer_vars,
                   clock, save_vars>>

\* Faulty variant: the next boundary is taken to be one interval after the last
\* one, as if the callback had taken no time.
TimerRecomputeFixedDelay ==
    /\ sched_pc = "timer_now"
    /\ now' = clock
    /\ delay_to_next_interval' = interval
    /\ sleep_left' = interval
    /\ sched_pc' = "sleep"
    /\ UNCHANGED <<build_vars, cmp_vars, recorder_map, stream, stream_lock, rx_vars, stop_event,
                   interval, clock, save_vars, exc, log, hist>>

\* now = obspy.UTCDateTime(); the delay; time.sleep(delay) begins.
TimerRecompute ==
    /\ sched_pc = "timer_now"
    /\ now' = clock
    /\ delay_to_next_interval' = DelayToNextInterval(clock, interval)
    /\ sleep_left' = DelayToNextInterval(clock, interval)
    /\ sched_pc' = "sleep"
    /\ UNCHANGED <<build_vars, cmp_vars, recorder_map, stream, stream_lock, rx_vars, stop_event,
                   interval, clock, save_vars, exc, log, hist>>

TimerNext ==
    \/ TimerStart
    \/ TimerWhile
    \/ TimerExcept
    \/ TimerRecompute

(***************************************************************************)
(* The environment: the wall clock and the holder of the stop flag.        *)
(***************************************************************************)

\* One clock unit passes, while task_timer sleeps or while save_data waits
\* for the codec (where a write cycle spends its time).
Tick ==
    /\ \/ sched_pc = "sleep" /\ sleep_left > 0
       \/ sched_pc = "sd_write"
    /\ clock' = (clock + 1) % interval
    /\ sleep_left' = IF sched_pc = "sleep" THEN sleep_left - 1 ELSE sleep_left
    /\ hist' = IF sched_pc = "sd_write" /\ clock' % interval = 0
                THEN [hist EXCEPT !.overran = TRUE] ELSE hist
    /\ UNCHANGED <<build_vars, cmp_vars, recorder_map, stream, stream_lock, rx_vars, sched_pc,
                   stop_event, interval, now, delay_to_next_interval,
                   save_vars, exc, log>>

\* Another holder of the shared flag sets it.
StopSignal ==
    /\ ~stop_event
    /\ stop_event' = TRUE
    /\ UNCHANGED <<build_vars, cmp_vars, recorder_map, stream, stream_lock, rx_vars, sched_pc,
                   timer_vars, clock, save_vars, exc, log, hist>>

Next ==
    \/ RxNext
    \/ SaveDataNext
    \/ TimerNext
    \/ Tick
    \/ StopSignal

Spec == Init /\ [][Next]_vars

\* The steps of the scheduler thread: task_timer, the save_data it calls,
\* and the passing of the time it sleeps.
SchedNext ==
    \/ TimerNext
    \/ SaveDataNext
    \/ Tick /\ sched_pc = "sleep"

\* The same program under fair scheduling: a thread that can take its next
\* statement takes it, the codec write and time.sleep return, and a thread
\* waiting for stream_lock gets it once the lock stays free.  The transport
\* is not forced to deliver, and nobody is forced to set the stop flag.
FairSpec == Spec /\ WF_vars(OnDataNext) /\ WF_vars(SchedNext)

(***************************************************************************)
(* Construction: TransMetaClient.__init__ and get_recorder_mappings, run   *)
(* against a snapshot of the geometry inventory.  The inventory is a       *)
(* library of its own; what the client uses of it is get_station (the list *)
(* of the stations that match), station.channels, channel.nslc and         *)
(* channel.get_stream(start_time) (the list of the recorder streams the    *)
(* channel is bound to at that time, each with .item.serial, .item.name).  *)
(***************************************************************************)

\* Largest number of stations in the inventory, and of requested stations.
MaxStations == 2

\* The instants get_stream can be asked about.
QueryTimes == {1, 2}

\* Station codes (network, name, location); NSL_NOPE is in no inventory.
NSL_STA1 == <<"NL", "STA1", "00">>
NSL_STA2 == <<"AT", "STA2", "">>
NSL_NOPE == <<"NL", "NOPE", "00">>

\* Recorder streams.  A name is a string such as "00:HHZ", written here as
\* its pieces, ":" being the colon.
REC1 == [serial |-> "SN001", name |-> <<"00", ":", "HHZ">>]
REC2 == [serial |-> "SN002", name |-> <<"01", ":", "HHE">>]

\* What channel.get_stream(start_time = t) gives, for each t.
Always(rec) == [t \in QueryTimes |-> <<rec>>]
Never == [t \in QueryTimes |-> <<>>]
Until1(rec) == [t \in QueryTimes |-> IF t = 1 THEN <<rec>> ELSE <<>>]

Channel(nsl, code, streams) ==
    [nslc |-> nsl \o <<code>>, streams |-> streams]

\* The channel lists a station may have: none; one bound channel; an
\* unbound channel followed by a bound one; a bound channel followed by one
\* whose binding ends after time 1.
ChannelLists(nsl) ==
    { <<>>,
      <<Channel(nsl, "HHZ", Always(REC1))>>,
      <<Channel(nsl, "HHZ", Never), Channel(nsl, "HHE", Always(REC2))>>,
      <<Channel(nsl, "HHZ", Always(REC1)), Channel(nsl, "HHE", Until1(REC2))>> }

InventoryStations ==
    UNION {{[nsl |-> nsl, channels |-> chans] : chans \in ChannelLists(nsl)} :
              nsl \in {NSL_STA1, NSL_STA2}}

\* The sequences over S of length 0..n.
SeqsUpTo(S, n) == UNION {[1..k -> S] : k \in 0..n}

\* inventory.get_station(network, name, location): the matching stations.
GetStation(nsl) == SelectSeq(inventory, LAMBDA st : st.nsl = nsl)

\* str.split(':'): the pieces between the colons ("" where there is none).
RECURSIVE SplitColon(_)
SplitColon(name) ==
    IF name = <<>> THEN <<"">>
    ELSE IF Head(name) = ":" THEN <<"">> \o SplitColon(Tail(name))
    ELSE <<Head(name) \o Head(SplitColon(Tail(name)))>>
            \o Tail(SplitColon(Tail(name)))

\* cur_key = ('XX', stream_tb[0].item.serial, cur_loc, cur_chan)
RecorderKey(rec) ==
    <<"XX", rec.serial, SplitColon(rec.name)[1], SplitColon(rec.name)[2]>>

\* The channels in the order the two nested for loops visit them.
RECURSIVE ChannelsOf(_)
ChannelsOf(sts) ==
    IF sts = <<>> THEN <<>> ELSE Head(sts).channels \o ChannelsOf(Tail(sts))

\* d[key] = value on a dict: a new key is added, an existing key's value is
\* replaced.
DictSet(d, key, value) ==
    [k \in DOMAIN d \cup {key} |-> IF k = key THEN value ELSE d[k]]

NoMap == <<>>
NotBuilt == [status |-> "none", error |-> "none", recorder_map |-> NoMap]

\* An exception leaves get_recorder_mappings and __init__: no client, and
\* self.recorder_map is never assigned.
BuildRaises(e) ==
    /\ built' = [built EXCEPT ![build_no] =
                    [status |-> "raised", error |-> e, recorder_map |-> NoMap]]
    /\ build_pc' = "constructed"
    /\ new_map' = NoMap
    /\ station_list' = <<>>
    /\ loop_at' = 1

\* The clients built against one project: a client is constructed per
\* connection, so a second one is built against the same snapshot.
Constructions == {1, 2}

MapInit ==
    /\ ClientInit
    /\ CmpRests
    /\ inventory \in SeqsUpTo(InventoryStations, MaxStations)
    /\ stations \in SeqsUpTo({NSL_STA1, NSL_STA2, NSL_NOPE}, MaxStations)
    /\ query_clock = 1
    /\ build_pc = "new"
    /\ build_no = 1
    /\ station_nsl = [none |-> TRUE, list |-> <<>>]
    /\ station_list = <<>>
    /\ loop_at = 1
    /\ new_map = NoMap
    /\ built = [n \in Constructions |-> NotBuilt]

\* __init__: self.stations = None, or the configured list if it is not
\* empty; get_recorder_mappings(station_nsl = self.stations) begins:
\* recorder_map = {}; with None, station_list = self.inventory.get_station().
Construct ==
    /\ build_pc = "new"
    /\ new_map' = NoMap
    /\ loop_at' = 1
    /\ IF Len(stations) > 0
         THEN /\ station_nsl' = [none |-> FALSE, list |-> stations]
              /\ station_list' = <<>>
              /\ build_pc' = "resolve"
         ELSE /\ station_nsl' = [none |-> TRUE, list |-> <<>>]
              /\ station_list' = inventory
              /\ build_pc' = "channels"
    /\ UNCHANGED <<client_vars, cmp_vars, inventory, stations, query_clock,
                   build_no, built>>

\* Faulty variant: a requested station that is not in the inventory is passed
\* over.
ResolveStationSkipsUnknown ==
    /\ build_pc = "resolve"
    /\ LET cur_station == GetStation(station_nsl.list[loop_at])
       IN  IF Len(cur_station) > 1 THEN BuildRaises("ValueError")
           ELSE /\ station_list' = IF Len(cur_station) = 0 THEN station_list
                                    ELSE Append(station_list, cur_station[1])
                /\ IF loop_at < Len(station_nsl.list)
                     THEN loop_at' = loop_at + 1 /\ build_pc' = "resolve"
                     ELSE loop_at' = 1 /\ build_pc' = "channels"
                /\ UNCHANGED <<new_map, built>>
    /\ UNCHANGED <<client_vars, cmp_vars, inventory, stations, query_clock,
                   build_no, station_nsl>>

\* One round of  for cur_nsl in station_nsl.  More than one match raises
\* ValueError.  With no match the message is made by
\* '...{0:s}...'.format(cur_nsl); cur_nsl is a list (json.loads of the
\* configuration), which has no 's' format, so this raises TypeError.
ResolveStation ==
    /\ build_pc = "resolve"
    /\ LET cur_station == GetStation(station_nsl.list[loop_at])
       IN  IF Len(cur_station) > 1 THEN BuildRaises("ValueError")
           ELSE IF Len(cur_station) = 0 THEN BuildRaises("TypeError")
           ELSE /\ station_list' = Append(station_list, cur_station[1])
                /\ IF loop_at < Len(station_nsl.list)
                     THEN loop_at' = loop_at + 1 /\ build_pc' = "resolve"
                     ELSE loop_at' = 1 /\ build_pc' = "channels"
                /\ UNCHANGED <<new_map, built>>
    /\ UNCHANGED <<client_vars, cmp_vars, inventory, stations, query_clock,
                   build_no, station_nsl>>

\* One round of  for station in station_list: for cur_channel in
\* station.channels.  get_stream is asked about the time of this round;
\* stream_tb[0] of an empty list raises IndexError.
MapChannel ==
    /\ build_pc = "channels"
    /\ loop_at <= Len(ChannelsOf(station_list))
    /\ LET cur_channel == ChannelsOf(station_list)[loop_at]
           stream_tb == cur_channel.streams[query_clock]
       IN  IF stream_tb = <<>> THEN BuildRaises("IndexError")
           ELSE /\ new_map' = DictSet(new_map, RecorderKey(stream_tb[1]),
                                      cur_channel.nslc)
                /\ loop_at' = loop_at + 1
                /\ UNCHANGED <<build_pc, station_list, built>>
    /\ UNCHANGED <<client_vars, cmp_vars, inventory, stations, query_clock,
                   build_no, station_nsl>>

\* return recorder_map, and __init__ assigns it to self.recorder_map.
BuildReturns ==
    /\ build_pc = "channels"
    /\ loop_at > Len(ChannelsOf(station_list))
    /\ built' = [built EXCEPT ![build_no] =
                    [status |-> "built", error |-> "none", recorder_map |-> new_map]]
    /\ build_pc' = "constructed"
    /\ new_map' = NoMap
    /\ station_list' = <<>>
    /\ loop_at' = 1
    /\ UNCHANGED <<client_vars, cmp_vars, inventory, stations, query_clock,
                   build_no, station_nsl>>

\* The next client is constructed, with the same project.
NextConstruction ==
    /\ build_pc = "constructed"
    /\ build_no + 1 \in Constructions
    /\ build_no' = build_no + 1
    /\ build_pc' = "new"
    /\ UNCHANGED <<client_vars, cmp_vars, inventory, stations, query_clock,
                   station_nsl, station_list, loop_at, new_map, built>>

\* Time passes: between two rounds of the channel loop (the only place
\* that reads the clock) or between two constructions.
QueryTick ==
    /\ query_clock + 1 \in QueryTimes
    /\ \/ build_pc = "channels"
       \/ build_pc = "constructed" /\ build_no + 1 \in Constructions
    /\ query_clock' = query_clock + 1
    /\ UNCHANGED <<client_vars, cmp_vars, inventory, stations, build_pc,
                   build_no, station_nsl, station_list, loop_at, new_map, built>>

MapNext ==
    \/ Construct
    \/ ResolveStation
    \/ MapChannel
    \/ BuildReturns
    \/ NextConstruction
    \/ QueryTick

MapSpec == MapInit /\ [][MapNext]_vars

(***************************************************************************)
(* The merge-and-split step of save_data on its own: export_stream holds   *)
(* what a drain took, for every drain result within the bounds below, and  *)
(* the step is taken once.  (The history record is not kept here.)         *)
(***************************************************************************)

\* Most traces in one drain, the latest slot a trace starts at, and the most
\* samples of a trace.
MaxDrained == 3
MaxSlot == 4
MaxSamples == 2

\* The i-th trace of a drain: it carries a DestinationId (on_data rewrote
\* it), and its samples are numbered so that each value occurs once.
DrainedTrace(i, id, start, n) ==
    [network |-> id[1], station |-> id[2], location |-> id[3], channel |-> id[4],
     starttime |-> start, data |-> [j \in 1..n |-> MaxSamples * (i - 1) + j]]

\* What a drain may hold, with k traces: the traces are in the order they
\* arrived, which is the order of their start times, and the traces of one
\* id do not overlap (a recorder stream sends each sample once).
RECURSIVE DrainedOfLen(_)
DrainedOfLen(k) ==
    IF k = 0 THEN {<<>>}
    ELSE LET TracesAt == {DrainedTrace(k, id, start, n) :
                             id \in {STA1, STA2}, start \in 1..MaxSlot,
                             n \in 1..MaxSamples}
             Fits(st, tr) == \A i \in DOMAIN st :
                 /\ st[i].starttime <= tr.starttime
                 /\ TraceIdTuple(st[i]) = TraceIdTuple(tr) =>
                        EndTime(st[i]) < tr.starttime
         IN  {Append(p[1], p[2]) :
                 p \in {q \in DrainedOfLen(k - 1) \X TracesAt : Fits(q[1], q[2])}}

DrainedStreams == UNION {DrainedOfLen(k) : k \in 0..MaxDrained}

MergeInit ==
    /\ \E drained \in DrainedStreams : ClientInitAt("sd_merge", drained)
    /\ interval = MaxInterval
    /\ clock = 0
    /\ BuildRests
    /\ CmpRests

MergeNext == SaveDataMergeAndName

MergeSpec == MergeInit /\ [][MergeNext]_vars

(***************************************************************************)
(* util.Version: the comparison methods.                                   *)
(***************************************************************************)

\* The longest version tuple and the largest component looked at.
MaxVersionLen == 3
MaxComponent == 1

\* self.version as string_to_tuple makes it: a tuple of non-negative
\* integers with at least one element (str.split never gives an empty list).
Versions == UNION {[1..n -> 0..MaxComponent] : n \in 1..MaxVersionLen}

\* The for loop of __eq__ from index k on (k counts from 1 here):
\*   if cur_n != c.version[k]: return False
\* and after the loop, return True.  c.version[k] beyond the end of
\* c.version raises IndexError.
RECURSIVE EqLoop(_, _, _)
EqLoop(self, c, k) ==
    IF k > Len(self) THEN "True"
    ELSE IF k > Len(c) THEN "IndexError"
    ELSE IF self[k] # c[k] THEN "False"
    ELSE EqLoop(self, c, k + 1)

__eq__(self, c) == EqLoop(self, c, 1)

\* return not self.__eq__(c)
__ne__(self, c) ==
    LET eq == __eq__(self, c)
    IN  IF eq = "IndexError" THEN "IndexError"
        ELSE IF eq = "True" THEN "False" ELSE "True"

\* The for loop of __gt__:
\*   if cur_n > c.version[k]: return True
\*   elif cur_n != c.version[k]: return False
\* and after the loop, return False.
RECURSIVE GtLoop(_, _, _)
GtLoop(self, c, k) ==
    IF k > Len(self) THEN "False"
    ELSE IF k > Len(c) THEN "IndexError"
    ELSE IF self[k] > c[k] THEN "True"
    ELSE IF self[k] # c[k] THEN "False"
    ELSE GtLoop(self, c, k + 1)

__gt__(self, c) == GtLoop(self, c, 1)

\* The for loop of __lt__, the same with <.
RECURSIVE LtLoop(_, _, _)
LtLoop(self, c, k) ==
    IF k > Len(self) THEN "False"
    ELSE IF k > Len(c) THEN "IndexError"
    ELSE IF self[k] < c[k] THEN "True"
    ELSE IF self[k] # c[k] THEN "False"
    ELSE LtLoop(self, c, k + 1)

__lt__(self, c) == LtLoop(self, c, 1)

\* return self.__eq__(c) or self.__gt__(c): the second call is made only
\* if the first one returned False.
__ge__(self, c) ==
    LET eq == __eq__(self, c)
    IN  IF eq = "False" THEN __gt__(self, c) ELSE eq

\* return self.__eq__(c) or self.__lt__(c)
__le__(self, c) ==
    LET eq == __eq__(self, c)
    IN  IF eq = "False" THEN __lt__(self, c) ELSE eq

\* Two Version objects, not yet compared.
VersionInit ==
    /\ ClientInit
    /\ BuildRests
    /\ self_version \in Versions
    /\ c_version \in Versions
    /\ cmp_result = <<>>

\* An operator is applied to the pair and what it gave is kept.
Compared(op, outcome) ==
    /\ op \notin DOMAIN cmp_result
    /\ cmp_result' = cmp_result @@ (op :> outcome)
    /\ UNCHANGED <<client_vars, build_vars, self_version, c_version>>

\* self == c
CompareEq == Compared("==", __eq__(self_version, c_version))
\* self != c
CompareNe == Compared("!=", __ne__(self_version, c_version))
\* self > c
CompareGt == Compared(">", __gt__(self_version, c_version))
\* self < c
CompareLt == Compared("<", __lt__(self_version, c_version))
\* self >= c
CompareGe == Compared(">=", __ge__(self_version, c_version))
\* self <= c
CompareLe == Compared("<=", __le__(self_version, c_version))

VersionNext ==
    \/ CompareEq
    \/ CompareNe
    \/ CompareGt
    \/ CompareLt
    \/ CompareGe
    \/ CompareLe

VersionSpec == VersionInit /\ [][VersionNext]_vars

(***************************************************************************)
(* Properties.                                                             *)
(***************************************************************************)

Batches == 1..MaxBatches
Range(f) == {f[x] : x \in DOMAIN f}
DrainsHolding(b) == {k \in DOMAIN hist.drains : b \in hist.drains[k]}

\* C1: every appended batch is at all times in exactly one place, the live
\* buffer or the result of exactly one drain, and a batch that was not
\* appended is in none; so the drain results and the live buffer together
\* hold the appended batches once each, and no batch is in two drain results.
C1_BatchInExactlyOnePlace ==
    \A b \in Batches :
        Occurrences(stream, b) + Cardinality(DrainsHolding(b))
            = (IF b \in hist.appended THEN 1 ELSE 0)

\* C1 witness: two batches have ended up in two different drain results.
C1_Witness ==
    \E b1, b2 \in Batches :
        /\ b1 # b2
        /\ Len(hist.drains) >= 2
        /\ b1 \in hist.drains[1]
        /\ b2 \in hist.drains[2]

\* C2: a drain's result is exactly the batches whose append completed before
\* the drain took the lock and that no earlier drain took; and no append
\* completes while a drain holds the lock.  So a batch appended before a
\* drain is in that drain's result, and a batch whose append starts while
\* the drain holds the lock, or later, is not in it and is in the result of
\* the next drain.
C2_DrainTakesWhatWasAppendedBefore ==
    [][ /\ Len(hist.drains') > Len(hist.drains) =>
             hist.drains'[Len(hist.drains')]
                 = hist.appended \ UNION Range(hist.drains)
        /\ stream_lock = "sched" => hist.appended' = hist.appended
      ]_vars

\* C2 witness: a batch whose append started while a drain held the lock has
\* just been taken by the drain after that one.
C2_Witness ==
    /\ sched_pc = "sd_merge"
    /\ Len(hist.drains) >= 2
    /\ hist.held # 0
    /\ hist.held \in hist.drains[Len(hist.drains)]
    /\ hist.held \notin hist.drains[Len(hist.drains) - 1]

\* C3 (as claimed): a write cycle that drained an empty buffer returns
\* without raising, so the scheduler is not stopped by it.
C3_EmptyCycleReturns ==
    (/\ hist.callbacks > 0
     /\ Len(hist.drains) = hist.callbacks
     /\ hist.drains[hist.callbacks] = {})
        => hist.outcome.how # "raised" /\ hist.failed_at = 0

\* C4 (as claimed): a lookup miss is absorbed inside on_data: no batch ends
\* with the lookup's error leaving on_data towards the transport.
C4_LookupMissAbsorbed ==
    \A b \in Batches : rx_result[b] # "KeyError"

\* The traces other components can observe: the live buffer, what a drain
\* took and hands to the codec, and the files.
ObservableTraces ==
    Range(stream) \cup Range(export_stream)
        \cup UNION {Range(f.traces) : f \in files}

\* C5: every batch in the live buffer, in a drain result, passed to the
\* codec or in a file carries, in all four identity fields, the
\* DestinationId that the MappingTable assigns to the SourceId it arrived
\* with; a batch with an unmapped SourceId is in none of these places.
C5_ObservedBatchesCarryDestinationId ==
    \A tr \in ObservableTraces : \A b \in TraceBatches(tr) :
        /\ hist.wire[b] \in DOMAIN recorder_map
        /\ TraceIdTuple(tr) = recorder_map[hist.wire[b]]

\* C5 witness: an unmapped batch was rejected and a file holds the series of
\* a mapped one, under its destination id.
C5_Witness ==
    /\ \E b \in Batches : rx_result[b] = "KeyError"
    /\ \E f \in files : \E i \in DOMAIN f.traces :
          TraceIdTuple(f.traces[i]) \in {STA1, STA2}

\* C6 (as claimed): after a write cycle in which the codec raised
\* ValueError, save_data has returned and no file of that cycle is left,
\* whether or not the codec had created one.
C6_InsufficientDataAbsorbed ==
    hist.outcome.codec = "ValueError" =>
        /\ hist.outcome.how = "returned"
        /\ \A f \in files : f.traces # <<>>

\* C7: when the codec raises NotImplementedError, save_data returns
\* normally; the batches drained for that cycle are gone for good (not in
\* the live buffer, not handed to the codec again, in no file); the handler
\* leaves the live buffer and the stop flag as they are and the scheduler
\* goes on to compute the next boundary.
C7_MaskedCycleDiscarded ==
    /\ [](/\ hist.outcome.codec = "NotImplementedError" =>
                hist.outcome.how = "returned"
          /\ \A b \in hist.masked :
                /\ b \notin BatchesOf(stream)
                /\ b \notin BatchesOf(export_stream)
                /\ \A f \in files : b \notin BatchesOf(f.traces))
    /\ [][ (sched_pc = "sd_except_ni" /\ sched_pc' # sched_pc) =>
              /\ stream' = stream
              /\ stop_event' = stop_event
              /\ exc' = "none"
              /\ sched_pc' = "timer_now"
         ]_vars

\* C7 witness: a cycle's batch was discarded as masked and a later cycle
\* wrote a later batch.
C7_Witness ==
    \E b \in hist.masked : \E f \in files : \E c \in BatchesOf(f.traces) : c > b

\* C8: once an error has left save_data and task_timer has handled it, the
\* error is logged, the stop flag is set, the callback is not invoked again,
\* and the scheduler can only sleep to the next boundary and stop (it is
\* never stuck before it has stopped).
C8_FailureStopsScheduler ==
    hist.failed_at > 0 =>
        /\ \E e \in {"ValueError", "FileNotFoundError", "OtherError"} :
              <<"task_timer", e>> \in log
        /\ stop_event
        /\ hist.callbacks = hist.failed_at
        /\ hist.outcome.how = "raised"
        /\ sched_pc \in {"timer_now", "sleep", "done"}
        /\ sched_pc = "done" \/ ENABLED (TimerNext \/ Tick)

\* C8 witness: the codec raised an unexpected error and the scheduler has
\* stopped.
C8_Witness ==
    /\ hist.failed_at > 0
    /\ hist.outcome.codec = "OtherError"
    /\ sched_pc = "done"

\* The smallest multiple of i that is later than t.
NextBoundaryAfter(t, i) == CHOOSE m \in (t + 1)..(t + i) : m % i = 0

\* C9: the first callback happens at the smallest multiple of interval
\* later than the start time: the first sleep lasts exactly up to it (a
\* whole interval only when the start is itself a multiple), and every
\* computed sleep delay is in (0, interval]; interval 60 and start 12:00:23
\* give a delay of 37 s, to 12:01:00.
C9_FirstCallbackAtNextBoundary ==
    /\ (sched_pc = "sd_with_lock" /\ hist.callbacks = 1) =>
          /\ now + delay_to_next_interval = NextBoundaryAfter(now, interval)
          /\ clock = (now + delay_to_next_interval) % interval
          /\ (delay_to_next_interval = interval) <=> (now % interval = 0)
    /\ sched_pc = "sleep" =>
          delay_to_next_interval > 0 /\ delay_to_next_interval <= interval
    /\ DelayToNextInterval(12 * 3600 + 23, 60) = 37

\* C9 witness: the first callback is invoked after a start off the boundary.
C9_Witness ==
    /\ sched_pc = "sd_with_lock"
    /\ hist.callbacks = 1
    /\ now % interval # 0

\* C10: every callback after the first happens at the smallest multiple of
\* interval later than the time the previous write cycle finished, however
\* long that cycle took: the sleep that precedes it starts from the clock
\* read when the cycle finished and lasts exactly up to that multiple, so a
\* cycle that overran boundaries is followed by one callback at the next
\* boundary.
C10_NextCallbackAtBoundaryAfterFinish ==
    /\ (sched_pc = "sd_with_lock" /\ hist.callbacks >= 2) =>
          /\ hist.finish_clock + delay_to_next_interval
                = NextBoundaryAfter(hist.finish_clock, interval)
          /\ clock = (hist.finish_clock + delay_to_next_interval) % interval
    /\ (sched_pc = "sleep" /\ hist.callbacks >= 1) => now = hist.finish_clock

\* C10 witness: a callback is invoked after a write cycle that ran past a
\* boundary.
C10_Witness ==
    /\ sched_pc = "sd_with_lock"
    /\ hist.callbacks >= 2
    /\ hist.overran

\* C11: once the stop flag is set task_timer terminates (under fair
\* scheduling).  The flag stays set; save_data never looks at it, so a write
\* cycle in progress leaves only by returning or raising and its outcome is
\* on record when task_timer has exited; the callback is never invoked in a
\* state where the flag is set (so a flag set before the first boundary
\* means no callback at all), and at a boundary with the flag set the
\* scheduler exits.
C11_StopFlagTerminatesTimer ==
    /\ stop_event ~> (sched_pc = "done")
    /\ [](sched_pc = "done" => stop_event /\ hist.outcome.how # "running")
    /\ [][ /\ stop_event => stop_event'
           /\ hist.callbacks' # hist.callbacks => ~stop_event
           /\ (sched_pc \in SavePcs /\ sched_pc' # sched_pc) =>
                 sched_pc' \in SavePcs \cup {"timer_now", "except"}
           /\ (sched_pc = "sleep" /\ sleep_left = 0 /\ stop_event
                  /\ sched_pc' # sched_pc) => sched_pc' = "done"
         ]_vars

\* C11 witness: the flag was set from outside after a write cycle had been
\* started; that cycle wrote its file and task_timer has exited.
C11_Witness ==
    /\ sched_pc = "done"
    /\ hist.callbacks >= 1
    /\ hist.failed_at = 0
    /\ hist.outcome = [how |-> "returned", codec |-> "ok"]
    /\ files # {}

\* A station is requested by name and some requested code matches no
\* station of the inventory, or more than one.
BadRequest ==
    /\ Len(stations) > 0
    /\ \E i \in DOMAIN stations : Len(GetStation(stations[i])) # 1

\* C12: with an explicit station list in which some requested code has no
\* match or more than one, every construction ends with an error (raised
\* while the stations are resolved), and no table exists at any time: the
\* table under construction stays empty and nothing is installed as
\* recorder_map, also not the entries of the other requested stations.
C12_BadRequestFailsWithoutTable ==
    BadRequest =>
        /\ new_map = NoMap
        /\ build_pc \in {"new", "resolve", "constructed"}
        /\ \A n \in Constructions :
              /\ built[n].status # "built"
              /\ built[n].recorder_map = NoMap
              /\ built[n].status = "raised" =>
                    built[n].error \in {"ValueError", "TypeError"}
        /\ build_pc = "constructed" => built[build_no].status = "raised"

\* C12 witness: the first requested station resolved and has a bound
\* channel, the second matches nothing, and the construction has failed.
C12_Witness ==
    /\ Len(stations) = 2
    /\ Len(GetStation(stations[1])) = 1
    /\ \E ch \in Range(GetStation(stations[1])[1].channels) :
          ch.streams[1] # <<>>
    /\ Len(GetStation(stations[2])) = 0
    /\ built[1].status = "raised"

\* The stations a request that is not bad resolves to: all of the inventory
\* when no station is requested, else the one match of each requested code.
ResolvedStations ==
    IF Len(stations) = 0 THEN inventory
    ELSE [i \in DOMAIN stations |-> GetStation(stations[i])[1]]

\* The channels of the resolved stations that are bound at every instant.
BoundChannels ==
    {ch \in Range(ChannelsOf(ResolvedStations)) :
        \A t \in QueryTimes : ch.streams[t] # <<>>}

\* C13 (as claimed): a channel without a stream binding is skipped: when
\* the requested stations resolve, every construction that has ended has
\* succeeded, whatever the bindings, and its table has an entry for the
\* recorder stream of every channel that is bound.
C13_UnboundChannelSkipped ==
    \A n \in Constructions :
        (~BadRequest /\ built[n].status # "none") =>
            /\ built[n].status = "built"
            /\ \A ch \in BoundChannels :
                  RecorderKey(ch.streams[1][1]) \in DOMAIN built[n].recorder_map

\* C14 (as claimed): the table of a successful construction has exactly one
\* entry per channel of the resolved stations (each was bound when it was
\* asked, at time 1): looking up the SourceId of the channel's recorder
\* stream gives this channel's own DestinationId, so no channel's entry was
\* replaced by another's; and the table has no other entries.
C14_EachChannelMapsToItself ==
    \A n \in Constructions :
        built[n].status = "built" =>
            /\ \A ch \in Range(ChannelsOf(ResolvedStations)) :
                  /\ RecorderKey(ch.streams[1][1]) \in DOMAIN built[n].recorder_map
                  /\ built[n].recorder_map[RecorderKey(ch.streams[1][1])] = ch.nslc
            /\ DOMAIN built[n].recorder_map =
                  {RecorderKey(ch.streams[1][1]) :
                      ch \in Range(ChannelsOf(ResolvedStations))}

\* The samples of a sequence of traces, each as <<id, slot, value>>.
SamplesOf(st) ==
    UNION {{<<TraceIdTuple(st[i]), st[i].starttime + j - 1, st[i].data[j]>> :
               j \in DOMAIN st[i].data} : i \in DOMAIN st}

\* The runs that hold a sample.
RunsHolding(runs, smp) == {r \in DOMAIN runs : smp \in SamplesOf(<<runs[r]>>)}

\* Two drained traces are in one run (traces do not overlap, so a trace's
\* first sample tells where the trace is).
InOneRun(runs, a, b) ==
    RunsHolding(runs, <<TraceIdTuple(a), a.starttime, a.data[1]>>)
        \cap RunsHolding(runs, <<TraceIdTuple(b), b.starttime, b.data[1]>>) # {}

\* b starts in the slot after a's last one.
Adjacent(a, b) ==
    TraceIdTuple(a) = TraceIdTuple(b) /\ EndTime(a) + 1 = b.starttime

\* Between a and b there is a slot that no drained trace of their id covers.
GapBetween(st, a, b) ==
    /\ TraceIdTuple(a) = TraceIdTuple(b)
    /\ \E slot \in (EndTime(a) + 1)..(b.starttime - 1) :
          \A i \in DOMAIN st :
              TraceIdTuple(st[i]) = TraceIdTuple(a) =>
                  slot < st[i].starttime \/ slot > EndTime(st[i])

C16_AppendCompletesLockIsBrief ==
    /\ \A b \in Batches :
          (rx_pc = "with_lock" /\ delivered = b) ~> (b \in hist.appended)
    /\ (sched_pc = "sd_with_lock") ~> (sched_pc = "sd_merge")
    /\ [](stream_lock = "rx" => rx_pc = "append" /\ ENABLED OnDataAppend)
    /\ [](stream_lock = "sched" =>
            \/ sched_pc = "sd_copy" /\ ENABLED SaveDataCopy
            \/ sched_pc = "sd_swap" /\ ENABLED SaveDataSwap)
    /\ [](rx_pc = "append" => stream_lock = "rx")
    /\ [](sched_pc \in {"sd_copy", "sd_swap"} => stream_lock = "sched")

\* A batch that found the lock held by a drain has been appended, and the
\* drain has finished its swap.
C16_Witness ==
    \E b \in Batches :
        /\ hist.held = b
        /\ b \in hist.appended
        /\ stream_lock = "free"
        /\ Len(hist.drains) >= 1

\* C17: once task_timer has returned, the receive path goes on as before.
\* The scheduler stays stopped, holds no lock and drains nothing; on_data is
\* never blocked: a mapped batch goes from the lookup to the rewrite, and the
\* lock and the append are there for it.  The live buffer changes only by
\* on_data appending the batch in its hands, so its size never decreases,
\* grows by one with each accepted batch, and holds every batch accepted
\* since the stop.
C17_ReceivePathUnaffectedByStop ==
    /\ [](sched_pc = "done" =>
            /\ stream_lock # "sched"
            /\ rx_pc \in {"on_data", "rewrite", "with_lock", "append"} =>
                   ENABLED OnDataNext
            /\ Len(stream) >= Cardinality(hist.appended) - hist.stopped_with)
    /\ [][sched_pc = "done" =>
            /\ sched_pc' = "done"
            /\ hist'.drains = hist.drains
            /\ hist'.callbacks = hist.callbacks
            /\ rx_pc = "on_data" /\ TraceIdTuple(trace) \in DOMAIN recorder_map =>
                   rx_pc' = "rewrite"
            /\ Len(stream') >= Len(stream)
            /\ IF hist'.appended # hist.appended
                 THEN /\ stream' = Append(stream, trace)
                      /\ Len(stream') = Len(stream) + 1
                      /\ rx_result'[delivered] = "appended"
                 ELSE stream' = stream]_vars

\* After task_timer has returned, on_data has appended a batch, which is in
\* the live buffer.
C17_Witness ==
    /\ sched_pc = "done"
    /\ Cardinality(hist.appended) > hist.stopped_with
    /\ Len(stream) >= 1
    /\ rx_pc = "idle"

\* C18: after construction recorder_map is never changed: seedlink_connect,
\* on_data with a mapped or an unmapped batch, save_data and every step of
\* task_timer leave the table as __init__ installed it.
C18_RecorderMapReadOnly ==
    /\ [](recorder_map = InitialRecorderMap)
    /\ [][recorder_map' = recorder_map]_vars

\* seedlink_connect has selected the table's streams, on_data has appended
\* a mapped batch and has met an unmapped one, and save_data has drained.
C18_Witness ==
    /\ hist.selected # {}
    /\ \E a, b \in Batches : rx_result[a] = "appended" /\ rx_result[b] = "KeyError"
    /\ Len(hist.drains) >= 1
    /\ sched_pc = "done"

\* C19: construction is deterministic: two clients constructed against the
\* same inventory snapshot with the same request end alike: both install
\* the same table, or both fail.
C19_ConstructionsAgree ==
    (\A n \in Constructions : built[n].status # "none") =>
        \A m, n \in Constructions :
            /\ built[m].status = built[n].status
            /\ built[m].recorder_map = built[n].recorder_map

\* Lexicographic order of two integer sequences: the first position where
\* they differ decides; if there is none, the shorter one is the smaller.
RECURSIVE LexLess(_, _)
LexLess(a, b) ==
    IF b = <<>> THEN FALSE
    ELSE IF a = <<>> THEN TRUE
    ELSE IF Head(a) # Head(b) THEN Head(a) < Head(b)
    ELSE LexLess(Tail(a), Tail(b))

\* What lexicographic comparison gives for the operator, as the operators'
\* outcomes are written.
Lexicographic(op, a, b) ==
    LET holds == CASE op = "==" -> a = b
                   [] op = "!=" -> a # b
                   [] op = "<"  -> LexLess(a, b)
                   [] op = ">"  -> LexLess(b, a)
                   [] op = "<=" -> ~LexLess(b, a)
                   [] op = ">=" -> ~LexLess(a, b)
    IN  IF holds THEN "True" ELSE "False"

\* C20: every comparison operator of Version, applied to any pair of
\* versions, returns what lexicographic comparison of the two integer
\* sequences gives (so none raises), and of <, == and > exactly one holds.
C20_ComparisonsAreLexicographic ==
    /\ \A op \in DOMAIN cmp_result :
          cmp_result[op] = Lexicographic(op, self_version, c_version)
    /\ {"<", "==", ">"} \subseteq DOMAIN cmp_result =>
          Cardinality({op \in {"<", "==", ">"} : cmp_result[op] = "True"}) = 1

\* C21: on a lookup miss on_data changes nothing.  Its step from the lookup
\* leaves the live buffer, the lock, the table and the trace as they were
\* and goes no further into on_data; when on_data has ended on the miss the
\* trace still carries the id it arrived with, the receive path does not
\* hold the lock, and the batch is neither appended nor in the buffer.
C21_LookupMissChangesNothing ==
    /\ [][ /\ rx_pc = "on_data"
           /\ TraceIdTuple(trace) \notin DOMAIN recorder_map
           /\ rx_pc' # rx_pc
           => /\ rx_pc' \notin {"rewrite", "with_lock", "append"}
              /\ stream' = stream
              /\ stream_lock' = stream_lock
              /\ trace' = trace
              /\ recorder_map' = recorder_map
              /\ hist'.appended = hist.appended]_vars
    /\ [](rx_pc = "raised" =>
            /\ TraceIdTuple(trace) = hist.wire[delivered]
            /\ hist.wire[delivered] \notin DOMAIN recorder_map
            /\ stream_lock # "rx"
            /\ delivered \notin BatchesOf(stream)
            /\ delivered \notin hist.appended)

\* on_data has ended on a lookup miss while the live buffer holds an earlier
\* batch.
C21_Witness ==
    /\ rx_pc = "raised"
    /\ rx_result[delivered] = "KeyError"
    /\ Len(stream) >= 1

\* C22: when the callback raises, the step of task_timer that handles the
\* exception sets the shared stop flag itself and goes on to the sleep, not
\* to the exit.  From then on the flag is set for every holder, no callback
\* is invoked, and the sleep that follows the failure starts from the clock
\* read after the failure, lasts at most one interval and ends at a
\* multiple of interval; task_timer returns only from the end of that
\* sleep.
C22_FailureSetsFlagThenSleepsToBoundary ==
    /\ [][sched_pc = "except" /\ sched_pc' # sched_pc =>
            /\ stop_event'
            /\ sched_pc' = "timer_now"
            /\ hist'.failed_at = hist.callbacks
            /\ clock' = clock]_vars
    /\ [][hist.failed_at > 0 =>
            /\ stop_event /\ stop_event'
            /\ hist'.callbacks = hist.callbacks
            /\ sched_pc = "timer_now" /\ sched_pc' # sched_pc =>
                  /\ sched_pc' = "sleep"
                  /\ now' = hist.finish_clock
                  /\ sleep_left' \in 1..interval
                  /\ (clock + sleep_left') % interval = 0
            /\ sched_pc # "done" /\ sched_pc' = "done" =>
                  /\ sched_pc = "sleep"
                  /\ sleep_left = 0
                  /\ clock % interval = 0]_vars
    /\ [](hist.failed_at > 0 =>
            /\ sched_pc \in {"timer_now", "sleep", "done"}
            /\ sched_pc = "sleep" => (clock + sleep_left) % interval = 0)

\* A callback raised right at a boundary; task_timer has slept the whole
\* interval since and is about to find the flag set.
C22_Witness ==
    /\ hist.failed_at > 0
    /\ stop_event
    /\ sched_pc = "sleep"
    /\ sleep_left = 0
    /\ delay_to_next_interval = interval

\* The batches of all drains so far, and of the drain of the running (or
\* last) cycle.
Drained == UNION Range(hist.drains)
LastDrain == hist.drains[Len(hist.drains)]

\* C23: save_data drains before anything else, and what a cycle drained is
\* that cycle's alone.  After the drain the cycle works on (merges, names,
\* writes) the batches of its own drain only; a drained batch is never in
\* the live buffer again and never in a second drain, so no later cycle
\* writes it.  However the cycle ends (it returns after the write, after
\* either handled codec error, or an error leaves it), it keeps nothing
\* for a later cycle, and the live buffer then holds exactly the batches
\* appended and not drained, which are those appended after its drain.
C23_DrainedBatchesLeaveForGood ==
    /\ [](/\ BatchesOf(stream) \cap Drained = {}
          /\ \A b \in Batches : Cardinality(DrainsHolding(b)) <= 1
          /\ sched_pc \in {"sd_merge", "sd_write", "sd_except_ni", "sd_except_value"} =>
                /\ Len(hist.drains) = hist.callbacks
                /\ BatchesOf(export_stream) \subseteq LastDrain)
    /\ [][ /\ files' # files =>
              \A f \in files' \ files : BatchesOf(f.traces) \subseteq LastDrain
           /\ hist'.drains # hist.drains =>
              /\ sched_pc = "sd_swap"
              /\ stream' = <<>>
              /\ \A f \in files : BatchesOf(f.traces) \cap BatchesOf(export_stream) = {}
           /\ sched_pc \in {"sd_merge", "sd_write", "sd_except_ni", "sd_except_value"}
                 /\ sched_pc' \in {"timer_now", "except"} =>
              /\ hist'.outcome.how \in {"returned", "raised"}
              /\ export_stream' = <<>>
              /\ BatchesOf(stream') \cap LastDrain = {}
              /\ BatchesOf(stream') = hist'.appended \ Drained]_vars

\* A cycle that drained a batch has ended with an error leaving save_data,
\* and the live buffer holds a batch appended after its drain.
C23_Witness ==
    /\ hist.outcome.how = "raised"
    /\ Len(hist.drains) >= 1
    /\ LastDrain # {}
    /\ BatchesOf(stream) # {}
    /\ sched_pc \in {"except", "timer_now"}

====
